---- MODULE Spec2Model ----
(***************************************************************************)
(* A model of two parts of mjrl:                                           *)
(*   - the Gaussian MLP policy's parameter snapshots                       *)
(*     (mjrl/policies/gaussian_mlp.py), specification PolicySpec;          *)
(*   - the outer training loop of the model-accelerated NPG job script     *)
(*     (mjrl/algos/model_accel/run_experiments/run_npgq.py),               *)
(*     specification Spec.                                                 *)
(***************************************************************************)
EXTENDS Integers, Sequences, FiniteSets, TLC

(***************************************************************************)
(* Numbers.  A parameter value is an integer count of the finest unit a    *)
(* caller's numpy vector can carry (float64).  A torch float32 tensor is   *)
(* coarser: it holds multiples of F32Step only.                            *)
(***************************************************************************)
MaxVal == 2

F32Step == 2

Values == (0 - MaxVal)..MaxVal

\* tensor.float() / float32 arithmetic: the nearest multiple of F32Step,
\* a tie going to the even multiple (IEEE round-to-nearest-even).
Float32(x) ==
    LET r  == x % F32Step
        lo == x - r
        hi == lo + F32Step
    IN  IF 2 * r < F32Step THEN lo
        ELSE IF 2 * r > F32Step THEN hi
        ELSE IF (lo \div F32Step) % 2 = 0 THEN lo ELSE hi

Max(a, b) == IF a >= b THEN a ELSE b

VARIABLES
    \* ---- MLP policy (gaussian_mlp.py)
    min_log_std,    \* self.min_log_std, as given to the constructor
    device,         \* self.device
    model,          \* self.model's parameter blocks (a sequence of blocks)
    log_std,        \* self.log_std (one block)
    old_model,      \* self.old_model's parameter blocks
    old_log_std,    \* self.old_log_std
    log_std_val,    \* self.log_std_val
    call,           \* the last operation applied to the policy and its arguments
    \* ---- job script (run_npgq.py)
    job_data,          \* the configuration read from the config file
    pc,                \* the script's position
    outer_iter,        \* the outer loop's index
    inner_step,        \* the inner (NPG) loop's index
    paths,             \* the in-memory path window
    init_states_buffer,\* one entry per path ever sampled, in sampling order
    iter_paths,        \* the paths sampled in the current iteration
    s,                 \* the window's transitions, as concatenated on line 118
    replay_buffer,     \* every transition handed to replay_buffer.store, in order
    loss_slice,        \* the transitions last handed to compute_loss
    fitted,            \* the number of fit_dynamics calls made so far
    N,                 \* the N of the last agent.train_step call
    log,               \* the keys logged (log_kv) in the current iteration
    raised,            \* the callbacks that raised in the current iteration
    agent_device,      \* where agent.to() last placed the agent
    dumps,             \* every pickle.dump made, in order
    crash              \* the exception that ended the run, or "none"

policyVars == <<min_log_std, device, model, log_std, old_model, old_log_std,
                log_std_val, call>>

trainVars == <<job_data, pc, outer_iter, inner_step, paths, init_states_buffer,
               iter_paths, s, replay_buffer, loss_slice, fitted, N, log, raised,
               agent_device, dumps, crash>>

vars == <<policyVars, trainVars>>

(***************************************************************************)
(* MLP policy                                                              *)
(***************************************************************************)
\* self.param_sizes: the sizes of the blocks of trainable_params, the last
\* one being the log-std block (of size m).
param_sizes == <<1, 1>>

NumBlocks == Len(param_sizes)

RECURSIVE SumTo(_, _)
SumTo(sizes, k) == IF k = 0 THEN 0 ELSE sizes[k] + SumTo(sizes, k - 1)

\* self.d
d == SumTo(param_sizes, NumBlocks)

m == param_sizes[NumBlocks]

Devices == {"cpu", "cuda"}

MinLogStds == {0, 1}

InitLogStds == {0 - 2, 0, 2}

Float32Values == {Float32(x) : x \in Values}

FlatVectors == [1..d -> Values]

\* self.trainable_params and self.old_params: the model's blocks, then log_std.
trainable_params == Append(model, log_std)

old_params == Append(old_model, old_log_std)

RECURSIVE Concat(_)
Concat(blocks) ==
    IF blocks = <<>> THEN <<>> ELSE Head(blocks) \o Concat(Tail(blocks))

\* get_param_values(): the blocks of trainable_params, flattened and joined.
get_param_values == Concat(trainable_params)

\* torch.clamp(t, lo) on a float32 tensor: lo is taken in the tensor's dtype.
clamp(t, lo) == [i \in DOMAIN t |-> Max(t[i], Float32(lo))]

\* The slice the loop cuts for block idx without advancing current_idx.
BlockOf_fixed_idx(new_params, idx) ==
    [i \in 1..param_sizes[idx] |-> Float32(new_params[i])]

\* Block idx of the loop in set_param_values:
\*   vals = new_params[current_idx : current_idx + param_sizes[idx]]
\*   param.data = torch.from_numpy(vals).float().to(self.device)
BlockOf(new_params, idx) ==
    LET current_idx == SumTo(param_sizes, idx - 1)
    IN  [i \in 1..param_sizes[idx] |-> Float32(new_params[current_idx + i])]

\* All blocks assigned by one pass of the loop, then the clamp of the last.
Assigned(new_params) ==
    [idx \in 1..NumBlocks |->
        IF idx = NumBlocks
        THEN clamp(BlockOf(new_params, idx), min_log_std)
        ELSE BlockOf(new_params, idx)]

\* MLP.__init__(min_log_std, init_log_std): both snapshots hold the same
\* freshly initialised weights w and ones(m) * init_log_std; device is the
\* default 'cpu'.  No clamp is applied here.
MLP_init(min, init, w) ==
    /\ min_log_std = min
    /\ device = "cpu"
    /\ model = [idx \in 1..(NumBlocks - 1) |->
                   [i \in 1..param_sizes[idx] |-> w[idx]]]
    /\ log_std = [i \in 1..m |-> Float32(init)]
    /\ old_model = model
    /\ old_log_std = log_std
    /\ log_std_val = log_std
    /\ call = [op |-> "init"]

\* A set_old test that also fires when only set_new was asked for.
OldIsSet_ignoring_flag(set_new, set_old) == set_new \/ set_old

\* `if set_old:`
OldIsSet(set_new, set_old) == set_old

\* set_param_values(new_params, set_new, set_old)
set_param_values(new_params, set_new, set_old) ==
    LET a == Assigned(new_params) IN
    /\ IF set_new
       THEN /\ model' = SubSeq(a, 1, NumBlocks - 1)
            /\ log_std' = a[NumBlocks]
            /\ log_std_val' = a[NumBlocks]
       ELSE UNCHANGED <<model, log_std, log_std_val>>
    /\ IF OldIsSet(set_new, set_old)
       THEN /\ old_model' = SubSeq(a, 1, NumBlocks - 1)
            /\ old_log_std' = a[NumBlocks]
       ELSE UNCHANGED <<old_model, old_log_std>>
    /\ call' = [op |-> "set", v |-> new_params, set_new |-> set_new,
                set_old |-> set_old]
    /\ UNCHANGED <<min_log_std, device, trainVars>>

SetParamValues ==
    \E v \in FlatVectors \cup {get_param_values, Concat(old_params)},
       set_new \in BOOLEAN, set_old \in BOOLEAN :
        set_param_values(v, set_new, set_old)

\* to(device): every tensor is moved, its values kept; the two parameter
\* lists are rebuilt from the moved tensors.
to(dev) ==
    /\ device' = dev
    /\ call' = [op |-> "to", device |-> dev]
    /\ UNCHANGED <<min_log_std, model, log_std, old_model, old_log_std,
                   log_std_val, trainVars>>

To == \E dev \in Devices : to(dev)


(***************************************************************************)
(* Job script run_npgq.py                                                  *)
(***************************************************************************)
MaxIter == 3

MaxSaveFreq == 2

MaxBufferSize == 3

MaxPathLen == 3

MaxSamples == 3

MaxInnerSteps == 1

MaxUpdatePaths == 3

\* buffer_frac is a fraction k / FracDen with k in 0..FracDen.
FracDen == 4

\* The keys the script reads with job_data[...] and gives no default.
RequiredKeys == {"num_iter", "init_samples", "iter_samples", "buffer_size",
                 "fit_epochs", "refresh_fit", "inner_steps", "update_paths",
                 "horizon"}

\* Configurations with every required key and a legal start_state.
ValidConfigs ==
    [num_iter : 0..MaxIter, save_freq : 0..MaxSaveFreq, device : Devices,
     start_state : {"init", "buffer"}, eval_rollouts : {0, 1},
     buffer_size : 1..MaxBufferSize, init_samples : {MaxSamples},
     iter_samples : 1..(MaxSamples - 1), inner_steps : {MaxInnerSteps},
     update_paths : {MaxUpdatePaths}, has_buffer_frac : {FALSE},
     buffer_frac : {0}, missing : {{}}]

BaseConfig ==
    [num_iter |-> MaxIter, save_freq |-> 1, device |-> "cpu",
     start_state |-> "init", eval_rollouts |-> 0,
     buffer_size |-> MaxBufferSize, init_samples |-> MaxSamples,
     iter_samples |-> 1, inner_steps |-> MaxInnerSteps,
     update_paths |-> MaxUpdatePaths, has_buffer_frac |-> FALSE,
     buffer_frac |-> 0, missing |-> {}]

\* One-iteration configurations that vary what the inner steps read:
\* start_state, update_paths, and buffer_frac (absent, or k / FracDen).
InitStateConfigs ==
    {[BaseConfig EXCEPT !.num_iter = 1, !.start_state = ss, !.update_paths = u,
                        !.has_buffer_frac = (k >= 0),
                        !.buffer_frac = IF k >= 0 THEN k ELSE 0] :
        ss \in {"init", "buffer"}, u \in 1..MaxUpdatePaths,
        k \in (0 - 1)..FracDen}

\* Configurations with one required key absent, or an illegal start_state.
BrokenConfigs ==
    {[BaseConfig EXCEPT !.missing = {k}] : k \in RequiredKeys}
        \cup {[BaseConfig EXCEPT !.start_state = "other"]}

\* job_data[key] raises KeyError when the key is absent.
Has(key) == key \notin job_data.missing

dataVars == <<paths, init_states_buffer, iter_paths, s, replay_buffer,
              loss_slice, fitted>>

ctlVars == <<outer_iter, inner_step, N, agent_device, dumps>>

logVars == <<log, raised>>

\* An uncaught exception ends the script.
Raise(e) == pc' = "crashed" /\ crash' = e

Goto(label) == pc' = label /\ crash' = crash

\* The state before the script's first statement.  The policy is built on the
\* MLP constructor's default device (line 89 passes none).
TrainStart(config) ==
    /\ job_data = config
    /\ pc = "config"
    /\ outer_iter = 0
    /\ inner_step = 0
    /\ paths = <<>>
    /\ init_states_buffer = <<>>
    /\ iter_paths = <<>>
    /\ s = <<>>
    /\ replay_buffer = <<>>
    /\ loss_slice = <<>>
    /\ fitted = 0
    /\ N = 0
    /\ log = {}
    /\ raised = {}
    /\ agent_device = "cpu"
    /\ dumps = <<>>
    /\ crash = "none"

\* Lines 49-67: defaults, then `assert job_data['start_state'] in [...]`.
ReadConfig ==
    /\ pc = "config"
    /\ IF job_data.start_state \in {"init", "buffer"}
       THEN Goto("setup")
       ELSE Raise("AssertionError")
    /\ UNCHANGED <<job_data, dataVars, ctlVars, logVars, policyVars>>

\* Lines 81-101: seeds, environment, models, policy, baseline, agent, replay
\* buffer; paths = [] and init_states_buffer = [].
Setup ==
    /\ pc = "setup"
    /\ paths' = <<>>
    /\ init_states_buffer' = <<>>
    /\ Goto("for")
    /\ UNCHANGED <<job_data, iter_paths, s, replay_buffer, loss_slice, fitted,
                   ctlVars, logVars, policyVars>>

\* Line 103: `for outer_iter in range(job_data['num_iter'])`; the range is
\* evaluated on entry to the loop.
ForOuterIter ==
    /\ pc = "for"
    /\ IF outer_iter = 0 /\ ~Has("num_iter") THEN Raise("KeyError")
       ELSE IF outer_iter < job_data.num_iter THEN Goto("sample")
       ELSE Goto("final")
    /\ UNCHANGED <<job_data, dataVars, ctlVars, logVars, policyVars>>

\* Line 109
samples_to_collect ==
    IF outer_iter = 0 THEN job_data.init_samples ELSE job_data.iter_samples

PathLens == 2..MaxPathLen

\* sampler.sample_data_batch(num_samples, ...): paths (given by their numbers
\* of observations) are rolled out until they hold num_samples samples.
RECURSIVE sample_data_batch(_)
sample_data_batch(num_samples) ==
    IF num_samples <= 0 THEN {<<>>}
    ELSE UNION {{<<n>> \o rest : rest \in sample_data_batch(num_samples - n)} :
                   n \in PathLens}

\* Lines 109-111.  A path is recorded by its rank among all paths sampled,
\* the iteration that sampled it and its number of observations.
Sample ==
    /\ pc = "sample"
    /\ IF ~Has(IF outer_iter = 0 THEN "init_samples" ELSE "iter_samples")
       THEN Raise("KeyError") /\ UNCHANGED <<iter_paths, logVars>>
       ELSE /\ \E lens \in sample_data_batch(samples_to_collect) :
                 iter_paths' =
                     [j \in 1..Len(lens) |->
                         [id |-> Len(init_states_buffer) + j,
                          it |-> outer_iter, n |-> lens[j]]]
            /\ log' = {}
            /\ raised' = {}
            /\ Goto("ingest")
    /\ UNCHANGED <<job_data, paths, init_states_buffer, s, replay_buffer,
                   loss_slice, fitted, ctlVars, policyVars>>

\* Lines 73-74: buffer_size(paths_list)
RECURSIVE buffer_size(_)
buffer_size(paths_list) ==
    IF paths_list = <<>> THEN 0
    ELSE (Head(paths_list).n - 1) + buffer_size(Tail(paths_list))

\* Dropping the newest path instead of the oldest.
DropNewest(ps) == SubSeq(ps, 1, Len(ps) - 1)

\* Line 116: `paths[:1] = []`
DropOldest(ps) == Tail(ps)

\* Lines 115-116: `while buffer_size(paths) > job_data['buffer_size']`
RECURSIVE Evict(_, _)
Evict(ps, ceiling) ==
    IF buffer_size(ps) > ceiling THEN Evict(DropOldest(ps), ceiling) ELSE ps

\* Lines 112-116: the batch is appended to the window and to
\* init_states_buffer, then the window is cut down to the ceiling.
Ingest ==
    /\ pc = "ingest"
    /\ init_states_buffer' = init_states_buffer \o iter_paths
    /\ IF ~Has("buffer_size")
       THEN paths' = paths \o iter_paths /\ Raise("KeyError")
       ELSE /\ paths' = Evict(paths \o iter_paths, job_data.buffer_size)
            /\ Goto("arrays")
    /\ UNCHANGED <<job_data, iter_paths, s, replay_buffer, loss_slice, fitted,
                   ctlVars, logVars, policyVars>>

\* The transitions of one path: observations[:-1] paired with observations[1:].
TransitionsOf(p) ==
    [k \in 1..(p.n - 1) |-> [path |-> p.id, k |-> k, it |-> p.it]]

\* Lines 118-122: np.concatenate over the paths of a list.
Transitions(ps) == Concat([j \in 1..Len(ps) |-> TransitionsOf(ps[j])])

\* Lines 118-124: the window's arrays; np.concatenate of an empty list raises.
Arrays ==
    /\ pc = "arrays"
    /\ IF paths = <<>>
       THEN Raise("ValueError") /\ s' = s
       ELSE s' = Transitions(paths) /\ Goto("store")
    /\ UNCHANGED <<job_data, paths, init_states_buffer, iter_paths,
                   replay_buffer, loss_slice, fitted, ctlVars, logVars,
                   policyVars>>

\* ReplayBuffer.store: a batch is appended (the capacity, 1e6 by default, is
\* out of reach here).
store(buffer, batch) == buffer \o batch

\* Line 126
Store ==
    /\ pc = "store"
    /\ replay_buffer' = store(replay_buffer, s)
    /\ Goto("log")
    /\ UNCHANGED <<job_data, paths, init_states_buffer, iter_paths, s,
                   loss_slice, fitted, ctlVars, logVars, policyVars>>

\* Lines 128-130
LogRollout ==
    /\ pc = "log"
    /\ IF ~Has("fit_epochs")
       THEN Raise("KeyError") /\ log' = log
       ELSE /\ log' = log \cup {"fit_epochs", "rollout_score", "iter_samples"}
            /\ Goto("rollout_metric")
    /\ UNCHANGED <<job_data, dataVars, ctlVars, raised, policyVars>>

\* A handler that lets the callback's exception through.
AfterCallback_propagating(failed, next) == IF failed THEN "crashed" ELSE next

\* `try: ... except: pass`: where control is after the try statement.
AfterCallback(failed, next) == next

\* Lines 131-135: evaluate_success on the rollouts may raise.
RolloutMetric ==
    /\ pc = "rollout_metric"
    /\ \E failed \in BOOLEAN :
          /\ log' = IF failed THEN log ELSE log \cup {"rollout_metric"}
          /\ raised' = IF failed THEN raised \cup {"rollout"} ELSE raised
          /\ pc' = AfterCallback(failed, "refresh_fit")
    /\ crash' = crash
    /\ UNCHANGED <<job_data, dataVars, ctlVars, policyVars>>

\* Lines 138-140
RefreshFit ==
    /\ pc = "refresh_fit"
    /\ IF ~Has("refresh_fit") THEN Raise("KeyError") ELSE Goto("fit")
    /\ UNCHANGED <<job_data, dataVars, ctlVars, logVars, policyVars>>

\* Python's a[-k:]: the last k entries, all of them when k is 0 or exceeds
\* the length.
LastK(a, k) ==
    IF k = 0 \/ k >= Len(a) THEN a ELSE SubSeq(a, Len(a) - k + 1, Len(a))

\* Lines 142-150: compute_loss on s[-samples_to_collect:], then the fit on
\* the whole window.
Fit ==
    /\ pc = "fit"
    /\ loss_slice' = LastK(s, samples_to_collect)
    /\ fitted' = fitted + 1
    /\ log' = log \cup {"dyn_loss", "dyn_loss_gen"}
    /\ Goto("npg")
    /\ UNCHANGED <<job_data, paths, init_states_buffer, iter_paths, s,
                   replay_buffer, ctlVars, raised, policyVars>>

\* Lines 155-168: refresh_policy is an optional key, absent here;
\* `for inner_step in range(job_data['inner_steps'])`.
ForInnerStep ==
    /\ pc = "npg"
    /\ IF ~Has("inner_steps")
       THEN Raise("KeyError") /\ inner_step' = inner_step
       ELSE inner_step' = 0 /\ Goto("npg_step")
    /\ UNCHANGED <<job_data, dataVars, outer_iter, N, agent_device, dumps,
                   logVars, policyVars>>

\* Python's int() of the quotient num / den: truncation toward zero.
int(num, den) ==
    IF num >= 0 THEN num \div den ELSE 0 - ((0 - num) \div den)

\* Lines 176-180: the number of states drawn from init_states_buffer.
num_states_1 ==
    IF job_data.has_buffer_frac
    THEN int(job_data.update_paths * (FracDen - job_data.buffer_frac), FracDen) + 1
    ELSE job_data.update_paths \div 2

\* Lines 176-180: the number of states drawn from the window's states s.
num_states_2 ==
    IF job_data.has_buffer_frac
    THEN int(job_data.update_paths * job_data.buffer_frac, FracDen) + 1
    ELSE job_data.update_paths \div 2

\* len(init_states) whatever the mode: update_paths.
NumInitStates_mode_blind == job_data.update_paths

\* Lines 169-185: len(init_states).
NumInitStates ==
    IF job_data.start_state = "init"
    THEN job_data.update_paths
    ELSE num_states_1 + num_states_2

\* Lines 169-190: one inner step; the initial states are drawn, then
\* agent.train_step runs on the learned models.
NpgStep ==
    /\ pc = "npg_step"
    /\ IF inner_step >= job_data.inner_steps
       THEN Goto("eval") /\ UNCHANGED <<inner_step, N>>
       ELSE IF ~Has("update_paths") \/ ~Has("horizon")
       THEN Raise("KeyError") /\ UNCHANGED <<inner_step, N>>
       ELSE /\ N' = NumInitStates
            /\ inner_step' = inner_step + 1
            /\ Goto("npg_step")
    /\ UNCHANGED <<job_data, dataVars, outer_iter, agent_device, dumps,
                   logVars, policyVars>>

\* Lines 192-204: validation rollouts when eval_rollouts > 0;
\* evaluate_success on them may raise.
Evaluate ==
    /\ pc = "eval"
    /\ IF job_data.eval_rollouts > 0
       THEN \E failed \in BOOLEAN :
              /\ log' = log \cup {"eval_score"}
                            \cup (IF failed THEN {} ELSE {"eval_metric"})
              /\ raised' = IF failed THEN raised \cup {"eval"} ELSE raised
              /\ pc' = AfterCallback(failed, "ckpt")
       ELSE pc' = "ckpt" /\ UNCHANGED logVars
    /\ crash' = crash
    /\ UNCHANGED <<job_data, dataVars, ctlVars, policyVars>>

\* Line 207: `outer_iter > 0 and outer_iter % job_data['save_freq'] == 0`
\* (evaluated only where the modulus is defined).
SaveDue(i, save_freq) == i > 0 /\ i % save_freq = 0

\* Line 209: agent.to('cpu') before pickling.
PicklingDevice == "cpu"

\* The two pickle.dump calls of one save, with the agent placed on dev.
DumpPair(kind, i, dev) ==
    <<[kind |-> kind, obj |-> "agent", iter |-> i, placement |-> dev],
      [kind |-> kind, obj |-> "policy", iter |-> i, placement |-> dev]>>

\* Lines 206-212: the periodic checkpoint.  The modulus is taken only when
\* outer_iter > 0, and raises when save_freq is 0.
Checkpoint ==
    /\ pc = "ckpt"
    /\ IF outer_iter > 0 /\ job_data.save_freq = 0
       THEN Raise("ZeroDivisionError") /\ UNCHANGED <<agent_device, dumps>>
       ELSE IF outer_iter > 0 /\ SaveDue(outer_iter, job_data.save_freq)
       THEN /\ dumps' = dumps \o DumpPair("periodic", outer_iter, PicklingDevice)
            /\ agent_device' = job_data.device
            /\ Goto("save_log")
       ELSE Goto("save_log") /\ UNCHANGED <<agent_device, dumps>>
    /\ UNCHANGED <<job_data, dataVars, outer_iter, inner_step, N, logVars,
                   policyVars>>

\* Lines 214-221: iter_time, the log and the plots are saved; the loop
\* advances.
SaveLog ==
    /\ pc = "save_log"
    /\ log' = log \cup {"iter_time"}
    /\ outer_iter' = outer_iter + 1
    /\ Goto("for")
    /\ UNCHANGED <<job_data, dataVars, inner_step, N, agent_device, dumps,
                   raised, policyVars>>

\* Lines 223-225: the final save, made wherever the agent is.
FinalSave ==
    /\ pc = "final"
    /\ dumps' = dumps \o DumpPair("final", outer_iter, agent_device)
    /\ Goto("done")
    /\ UNCHANGED <<job_data, dataVars, outer_iter, inner_step, N, agent_device,
                   logVars, policyVars>>

Init ==
    /\ \E config \in ValidConfigs \cup BrokenConfigs \cup InitStateConfigs :
          TrainStart(config)
    /\ MLP_init(0, 0, [idx \in 1..(NumBlocks - 1) |-> 0])

Next ==
    \/ ReadConfig
    \/ Setup
    \/ ForOuterIter
    \/ Sample
    \/ Ingest
    \/ Arrays
    \/ Store
    \/ LogRollout
    \/ RolloutMetric
    \/ RefreshFit
    \/ Fit
    \/ ForInnerStep
    \/ NpgStep
    \/ Evaluate
    \/ Checkpoint
    \/ SaveLog
    \/ FinalSave

Spec == Init /\ [][Next]_vars

\* A policy on its own: built with any floor, any initial log-std and any
\* float32 weights (MLP.__init__ applies no clamp), then driven through
\* set_param_values and to().
PolicyInit ==
    /\ \E min \in MinLogStds, init \in InitLogStds,
          w \in [1..(NumBlocks - 1) -> Float32Values] : MLP_init(min, init, w)
    /\ TrainStart(BaseConfig)

PolicyNext == SetParamValues \/ To

PolicySpec == PolicyInit /\ [][PolicyNext]_vars

(***************************************************************************)
(* Claims about the policy, checked under PolicySpec                       *)
(***************************************************************************)
LogStdIdx == (d - m + 1)..d

\* C1 (as stated): after set_param_values(v) with set_new, get_param_values()
\* is v itself outside the log-std block and max(v, min_log_std) inside it.
C1_RoundTripExact ==
    (call.op = "set" /\ call.set_new) =>
        /\ \A i \in (1..d) \ LogStdIdx : get_param_values[i] = call.v[i]
        /\ \A i \in LogStdIdx :
              get_param_values[i] = Max(call.v[i], min_log_std)

\* C1 (amended): after set_param_values(v) with set_new, get_param_values()
\* is v rounded to float32 outside the log-std block, and inside it the larger
\* of v and min_log_std, both rounded to float32; setting the returned vector
\* again would assign the very same blocks (the cast and the clamp are
\* idempotent).
C1_RoundTripFloat32 ==
    (call.op = "set" /\ call.set_new) =>
        /\ \A i \in (1..d) \ LogStdIdx :
              get_param_values[i] = Float32(call.v[i])
        /\ \A i \in LogStdIdx :
              get_param_values[i] = Max(Float32(call.v[i]), Float32(min_log_std))
        /\ Concat(Assigned(get_param_values)) = get_param_values

\* C1 witness: a vector that float32 cannot hold and whose log-std entry lies
\* under the floor has been set.
C1_Witness ==
    /\ call.op = "set" /\ call.set_new
    /\ \E i \in (1..d) \ LogStdIdx : Float32(call.v[i]) # call.v[i]
    /\ \E i \in LogStdIdx : call.v[i] < min_log_std /\ get_param_values[i] > call.v[i]

\* C2: a set_param_values step with set_new alone leaves old_model and
\* old_log_std as they were, and one with set_old alone leaves model, log_std
\* and log_std_val as they were, whatever calls came before.
C2_SnapshotFrame ==
    [][ /\ (call'.op = "set" /\ call'.set_new /\ ~call'.set_old)
            => UNCHANGED <<old_model, old_log_std>>
        /\ (call'.op = "set" /\ ~call'.set_new /\ call'.set_old)
            => UNCHANGED <<model, log_std, log_std_val>> ]_vars

\* C2 witness: after a set_new-only call the old snapshot still differs from
\* the vector just set.
C2_Witness ==
    /\ call.op = "set" /\ call.set_new /\ ~call.set_old
    /\ Concat(old_params) # get_param_values
    /\ old_model # model

\* C10 (as stated): every entry of log_std and of old_log_std is at least
\* min_log_std in every reachable state of the policy.
C10_LogStdFloor ==
    /\ \A i \in 1..m : log_std[i] >= min_log_std
    /\ \A i \in 1..m : old_log_std[i] >= min_log_std

(***************************************************************************)
(* Claims about the job script, checked under Spec                         *)
(***************************************************************************)
Range(a) == {a[i] : i \in DOMAIN a}

IsSuffix(a, b) ==
    Len(a) <= Len(b) /\ a = SubSeq(b, Len(b) - Len(a) + 1, Len(b))

FinalDumps == {i \in DOMAIN dumps : dumps[i].kind = "final"}

\* C3 (as stated): a periodic checkpoint is written only at an iteration i
\* with i % save_freq = 0, and whatever num_iter and save_freq are, a run
\* that no configuration error or emptied window stops ends with the final
\* pair written exactly once, after every periodic one.
C3_PeriodicAndFinal ==
    /\ \A i \in DOMAIN dumps :
          dumps[i].kind = "periodic" =>
              /\ job_data.save_freq # 0
              /\ dumps[i].iter % job_data.save_freq = 0
    /\ (/\ pc \in {"done", "crashed"}
        /\ crash \notin {"AssertionError", "KeyError", "ValueError"})
          => /\ FinalDumps = {Len(dumps) - 1, Len(dumps)}
             /\ Len(dumps) >= 2

\* C4 (as stated): every pickle.dump, periodic or final, is made while the
\* agent is placed on 'cpu'.
C4_DumpsOnCpu == \A i \in DOMAIN dumps : dumps[i].placement = "cpu"

\* What every completed iteration has logged, whether or not a callback
\* raised.
IterationKeys == {"fit_epochs", "rollout_score", "iter_samples", "dyn_loss",
                  "dyn_loss_gen", "iter_time"}

\* C5: when evaluate_success raises on the rollouts or on the validation
\* rollouts, control continues right after the try statement without a
\* crash and without the metric key being logged; every iteration that
\* reaches its end has fitted the models, run its inner steps and saved its
\* log, and has no metric key for a callback that raised.
C5_CallbackCaught ==
    /\ [][ /\ (pc = "rollout_metric" /\ "rollout" \in raised')
               => /\ pc' = "refresh_fit"
                  /\ crash' = "none"
                  /\ log' = log
           /\ (pc = "eval" /\ "eval" \in raised')
               => /\ pc' = "ckpt"
                  /\ crash' = "none"
                  /\ log' = log \cup {"eval_score"} ]_vars
    /\ [](("rollout" \in raised => "rollout_metric" \notin log)
          /\ ("eval" \in raised => "eval_metric" \notin log)
          /\ (pc = "for" /\ outer_iter > 0
                => /\ IterationKeys \subseteq log
                   /\ fitted = outer_iter
                   /\ inner_step = job_data.inner_steps))

\* C5 witness: both callbacks raised in an iteration that ran to its end,
\* and the loop has entered the next iteration.
C5_Witness ==
    /\ pc = "sample" /\ outer_iter > 0
    /\ raised = {"rollout", "eval"}
    /\ IterationKeys \subseteq log

\* C6 (as stated): when a configuration error (an illegal start_state, a
\* missing required key) stops the run, no real trajectory has been sampled
\* and no model has been fitted.
C6_FailFast ==
    crash \in {"AssertionError", "KeyError"} =>
        /\ iter_paths = <<>>
        /\ init_states_buffer = <<>>
        /\ fitted = 0

\* C7: the window never holds more than buffer_size transitions once
\* ingested, and it is always a suffix of the sequence of all paths sampled:
\* eviction is oldest-first and never skips a path.
C7_WindowBounded ==
    Has("buffer_size") =>
        /\ buffer_size(paths) <= job_data.buffer_size
        /\ IsSuffix(paths, init_states_buffer)

\* C7 witness: after an ingestion that evicted, the window still holds a
\* path of an earlier iteration next to one of the current iteration.
C7_Witness ==
    /\ pc = "arrays" /\ outer_iter > 0
    /\ Len(paths) < Len(init_states_buffer)
    /\ \E i, j \in DOMAIN paths : paths[i].it < outer_iter /\ paths[j].it = outer_iter

\* C8 (as stated): the batch appended by replay_buffer.store is exactly the
\* transitions of the paths sampled in the current iteration, no transition
\* is stored twice, and every real transition has been stored.
C8_StoredOnce ==
    /\ \A i, j \in DOMAIN replay_buffer :
          replay_buffer[i] = replay_buffer[j] => i = j
    /\ pc = "log" =>
          /\ IsSuffix(Transitions(iter_paths), replay_buffer)
          /\ Range(Transitions(init_states_buffer)) \subseteq Range(replay_buffer)

\* C9 (as stated): the transitions handed to compute_loss all belong to
\* paths sampled in the current iteration.
C9_LossOnNewestBatch ==
    pc \in {"npg", "npg_step", "eval", "ckpt", "save_log"} =>
        \A i \in DOMAIN loss_slice : loss_slice[i].it = outer_iter

\* C11: once agent.train_step has been called in an inner loop, its N is
\* update_paths (U) with start_state 'init'; with start_state 'buffer' and
\* buffer_frac = k / FracDen it is floor(U * (1 - f)) + 1 + floor(U * f) + 1,
\* which exceeds U; with start_state 'buffer' and no buffer_frac it is
\* 2 * floor(U / 2), which is U - 1 when U is odd.
C11_NumInitStates ==
    LET U == job_data.update_paths
        k == job_data.buffer_frac
    IN  inner_step > 0 =>
          /\ job_data.start_state = "init" => N = U
          /\ (job_data.start_state = "buffer" /\ job_data.has_buffer_frac)
                => /\ N = ((U * (FracDen - k)) \div FracDen + 1)
                            + ((U * k) \div FracDen + 1)
                   /\ N > U
          /\ (job_data.start_state = "buffer" /\ ~job_data.has_buffer_frac)
                => /\ N = 2 * (U \div 2)
                   /\ (U % 2 = 1 => N = U - 1)

\* C11 witness: a train step ran in 'buffer' mode with a buffer_frac strictly
\* between 0 and 1 and an odd update_paths.
C11_Witness ==
    /\ inner_step > 0
    /\ job_data.start_state = "buffer" /\ job_data.has_buffer_frac
    /\ job_data.buffer_frac > 0 /\ job_data.buffer_frac < FracDen
    /\ job_data.update_paths % 2 = 1
    /\ N > job_data.update_paths

====
